---- MODULE Spec2Model ----
(***************************************************************************)
(* k8s-release-manager: the import / transfer run (state read, conflict    *)
(* check, bounded deployment) and the export-side State Record manager.    *)
(*                                                                         *)
(*   Spec       one Import.Run or Transfer.Run, from StoredReleases to the *)
(*              return of deployReleases, with its install goroutines.     *)
(*   SpecState  the export-side State (Init, Update, Remove) against a     *)
(*              backend whose record may be changed or lost underneath it. *)
(*   SpecOwners two export-side States (Init, Update) on one storage path. *)
(*   SpecStored State.StoredReleases with its per-file reader goroutines.  *)
(*   SpecImportFair  one Import.Run under fair goroutine scheduling.       *)
(***************************************************************************)
EXTENDS Integers, Sequences, FiniteSets, TLC

(* ------------------------------ bounds --------------------------------- *)

\* Largest number of stored releases of a run.
MaxReleases == 3
\* Largest permit pool size (cap(sem)) a run is checked with.
MaxThreads == 2
\* Largest release revision the cluster reports.
MaxVersion == 2
\* Largest number of State method calls (Init, Update, Remove) of one export
\* process.
MaxCalls == 4

(* ------------------------------ values --------------------------------- *)

\* Go's nil (a nil error, a nil *Info).
Nil == "nil"

\* The release name of the manager release; every other release is app<k>.
ManagerName == "mgr"

NameOf(k) == IF k = 1 THEN ManagerName ELSE "app" \o ToString(k)

\* The namespaces releases live in: odd releases in default, even in kube-system.
NamespaceOf(k) == IF k % 2 = 1 THEN "default" ELSE "kube-system"

\* constants.ValueStoragePath, the key of a release's values that holds the
\* backend path, and the key the --values override sets.
ValueStoragePath == "path"
OverrideKey == "key"

\* A stored release as release.FromFile decodes it.
Release(k) ==
    [name |-> NameOf(k), namespace |-> NamespaceOf(k),
     values |-> [c \in {ValueStoragePath, OverrideKey} |-> "stored"]]

ReleaseIds == 1..MaxReleases

ReleaseNames == {NameOf(k) : k \in ReleaseIds}

RECURSIVE SeqOfIds(_, _)
\* The releases with ids in S, in ascending order of id, from id k on.
SeqOfIds(S, k) ==
    IF k > MaxReleases THEN <<>>
    ELSE (IF k \in S THEN <<Release(k)>> ELSE <<>>) \o SeqOfIds(S, k + 1)

\* The batches StoredReleases can return: any subset of the release universe.
Batches == {SeqOfIds(S, 1) : S \in SUBSET ReleaseIds}

\* release.UpdateValue: the release with key k of its values set to v.
UpdateValue(r, k, v) == [r EXCEPT !.values[k] = v]

(* ------------------------- the State Record ---------------------------- *)

\* A nil *Info, and a pointer to the Info i.
NilInfo == <<>>
Ptr(i) == <<i>>

\* state.Info for the release name at revision v.
InfoOf(name, v) ==
    [ReleaseFilename |-> name \o "-" \o ToString(v),
     ReleaseName |-> name, ReleaseVersion |-> v]

Infos == {InfoOf(n, v) : n \in {ManagerName, "other"}, v \in 1..MaxVersion}

\* &Info{}: what read() returns beside the error when the bytes do not decode.
ZeroInfo == [ReleaseFilename |-> "", ReleaseName |-> "", ReleaseVersion |-> 0]

\* Info.Serialize: the JSON text of an Info, the revision printed in decimal.
Serialize(i) ==
    <<"json", i.ReleaseFilename, i.ReleaseName, ToString(i.ReleaseVersion)>>

\* What the backend holds at State.Path(): no object, bytes that are no JSON,
\* or the JSON text of an Info.
Absent == <<>>
Garbage == <<"garbage">>
RemoteValues == {Absent, Garbage} \cup {Serialize(i) : i \in Infos}

\* json.Unmarshal into an Info: the error, and the decoded value.
UnmarshalErr(b) ==
    IF Len(b) > 0 /\ b[1] = "json" THEN Nil ELSE "UnmarshalError"
Unmarshal(b) ==
    [ReleaseFilename |-> b[2], ReleaseName |-> b[3],
     ReleaseVersion |-> CHOOSE v \in 1..MaxVersion : ToString(v) = b[4]]

(* ----------------------------- variables ------------------------------- *)

VARIABLES
    cmd,            \* "import" | "transfer" | "export": the command running
    Config,         \* the configuration of the command
    semCap,         \* cap(sem) = constants.ImportMaxThreads
    stored,         \* what State.Releases.StoredReleases() returns
    remoteState,    \* the backend's content at State.Path()
    pc,             \* position of the main goroutine in Run
    releases,       \* Run's local variable releases
    Info,           \* t.State.Info
    checkErr,       \* what sanityCheck returned ("unset" before it ran)
    runErr,         \* what Run returned ("unset" before it returned)
    idx,            \* index of the release the deploy loop is at
    cur,            \* the release the loop is about to dispatch
    sem,            \* number of permits in the channel sem
    wg,             \* the WaitGroup counter
    refill,         \* i of the final permit-refill loop
    wpc,            \* per release name, position of its install goroutine
    journey,        \* per release name, its state in the orchestrator
    handed,         \* per release name, the release rendered or installed
    installCalls,   \* per release name, number of HelmClient.Install calls
    installRet,     \* per release name, what HelmClient.Install returned
    deployRet,      \* per release name, what deployRelease returned
    ops,            \* backend calls made so far: reads, writes, deletes
    sinit,          \* State.init
    calls,          \* number of State method calls of the export process
    updCalls,       \* number of updateState calls among them
    lastOp,         \* the State operation (or backend change) that ran last
    lastCand,       \* the candidate Info of the last updateState call
    ret,            \* what the last State operation returned
    clean,          \* no backend change, failure or candidate change so far
    valuesErr,      \* what the UpdateValue calls of updateValues returned
    stateRead,      \* the State.Read of Run: its result and the bytes it saw
    lastObs,        \* the release list of the last State.Update call
    mgrs,           \* per manager process, its State: release name, init
    owner,          \* the manager whose write put the record there (0: none)
    clobber,        \* the overwrite or delete of another manager's record
    entries,        \* what Backend.List returns for the storage path
    spc,            \* position of StoredReleases
    sidx,           \* index of the file name StoredReleases is launching
    rpc,            \* per file name, position of its reader goroutine
    rres,           \* per file name, the error of its ReadRelease
    rlocal,         \* per file name, the slice its append has loaded
    sret            \* the slice ret of StoredReleases

runVars ==
    <<pc, releases, Info, checkErr, runErr, idx, cur, sem, wg, refill,
      wpc, journey, handed, installCalls, installRet, deployRet,
      valuesErr, stateRead>>

exportVars ==
    <<sinit, calls, updCalls, lastOp, lastCand, ret, clean, lastObs>>

ownerVars == <<mgrs, owner, clobber>>

storedVars == <<entries, spc, sidx, rpc, rres, rlocal, sret>>

stateVars == <<exportVars, ownerVars, storedVars>>

vars ==
    <<cmd, Config, semCap, stored, remoteState, ops, runVars, stateVars>>

(* ------------------------ the conflict resolver ------------------------ *)

\* Import.resolveStateConflict: --force wins, then --dry-run, else the error.
ImportResolveStateConflict_ForceOnly(force, dryRun) ==
    IF force THEN Nil ELSE "StateConflict"

ImportResolveStateConflict(force, dryRun) ==
    IF force THEN Nil
    ELSE IF dryRun THEN Nil
    ELSE "StateConflict"

\* Import.sanityCheck: the switch over (t.State.Info, NewStoragePath).
ImportSanityCheck_AnyState(info, newPath, force, dryRun) ==
    IF newPath = "" THEN ImportResolveStateConflict(force, dryRun) ELSE Nil

ImportSanityCheck(info, newPath, force, dryRun) ==
    CASE info # NilInfo /\ newPath = "" ->
             ImportResolveStateConflict(force, dryRun)
      [] info = NilInfo /\ newPath # "" -> Nil
      [] info = NilInfo /\ newPath = "" -> Nil
      [] info # NilInfo /\ newPath # "" -> Nil
      [] OTHER -> "UnknownSanityError"

\* Transfer.resolveStateConflict.
TransferResolveStateConflict(force, dryRun) ==
    IF force THEN Nil
    ELSE IF dryRun THEN Nil
    ELSE "StateConflict"

\* t.State of a Transfer: Run has dereferenced it (t.State.Releases) before
\* sanityCheck runs, so it is never nil there.
TransferStateIsNil == FALSE

\* Transfer.sanityCheck: the switch over (t.State, NewStoragePath).
TransferSanityCheck(newPath, force, dryRun) ==
    CASE ~TransferStateIsNil /\ newPath = "" ->
             TransferResolveStateConflict(force, dryRun)
      [] TransferStateIsNil /\ newPath # "" -> Nil
      [] TransferStateIsNil /\ newPath = "" -> Nil
      [] ~TransferStateIsNil /\ newPath # "" -> Nil
      [] OTHER -> "UnknownSanityError"

\* t.State.Info as the conflict check and the deploy loop see it: the field
\* State.Read filled at the start of Run; nothing reads the backend again.
CurrentInfo_LiveRead ==
    IF UnmarshalErr(remoteState) = Nil
    THEN Ptr(Unmarshal(remoteState)) ELSE NilInfo

CurrentInfo == Info

\* The conflict check of the running command.
SanityCheckResult ==
    IF cmd = "import"
    THEN ImportSanityCheck(CurrentInfo, Config.NewStoragePath, Config.Force,
                           Config.DryRun)
    ELSE TransferSanityCheck(Config.NewStoragePath, Config.Force,
                             Config.DryRun)

(* --------------------- filtering and value overrides ------------------- *)

\* Import.includeReleasesByNamespace.
includeReleasesByNamespace(rs) ==
    SelectSeq(rs, LAMBDA r : r.namespace = Config.Namespace)

\* Import.excludeReleasesByNamespace.
excludeReleasesByNamespace(rs) ==
    SelectSeq(rs, LAMBDA r : r.namespace \notin Config.ExcludeNamespaces)

\* Import.filterReleasesByNamespace: the include namespace is looked at
\* first, the exclude-list only without one.
filterReleasesByNamespace_ExcludeFirst(rs) ==
    IF Config.ExcludeNamespaces # {} THEN excludeReleasesByNamespace(rs)
    ELSE IF Config.Namespace # "" THEN includeReleasesByNamespace(rs)
    ELSE rs

filterReleasesByNamespace(rs) ==
    IF Config.Namespace # "" THEN includeReleasesByNamespace(rs)
    ELSE IF Config.ExcludeNamespaces # {} THEN excludeReleasesByNamespace(rs)
    ELSE rs

RECURSIVE ApplyValues(_, _)
\* The inner loop of Import.updateValues on one release: r after every
\* configured key/value pair went through release.UpdateValue.
ApplyValues(r, kvs) ==
    IF kvs = <<>> THEN r
    ELSE ApplyValues(UpdateValue(r, Head(kvs)[1], Head(kvs)[2]), Tail(kvs))

\* Import.updateValues when no UpdateValue call fails: the rewritten release
\* is assigned to the loop variable r only, and the slice passed in is what
\* is returned. Its elements carry the overrides only when UpdateValue
\* rewrote the object it was given (inPlace) instead of returning a copy.
updateValues(rs, inPlace) ==
    LET rewritten == [i \in 1..Len(rs) |-> ApplyValues(rs[i], Config.Values)]
    IN  IF inPlace THEN rewritten ELSE rs

\* Whether Run returns the error of processReleases instead of going on.
AbortOnValuesError_Never(err) == FALSE

AbortOnValuesError(err) == err # Nil

\* State.Read of Run on the outcome of its backend read ("ok", "NotFound",
\* "BackendUnavailable", "UnmarshalError"): the error it returns. A record
\* that is not there is no error.
StateReadErr_NotFoundFails(res) == IF res = "ok" THEN Nil ELSE res

StateReadErr(res) == IF res \in {"ok", "NotFound"} THEN Nil ELSE res

\* Whether some release.UpdateValue call of Import.updateValues is made at
\* all (only a call that is made can fail).
UpdateValueCalled(rs) == Len(rs) > 0 /\ Len(Config.Values) > 0

(* ------------------------- manager-release rewrite --------------------- *)

\* The guard of updateManagerRelease (Import and Transfer alike): whether r
\* is rewritten.
IsManagerRewrite_AnyRelease(r) ==
    ~(Config.NewStoragePath = "" \/ CurrentInfo = NilInfo)

IsManagerRewrite(r) ==
    ~(Config.NewStoragePath = "" \/ CurrentInfo = NilInfo
        \/ r.name # CurrentInfo[1].ReleaseName)

\* updateManagerRelease when updateManagerStoragePath does not fail.
updateManagerRelease(r) ==
    IF IsManagerRewrite(r)
    THEN UpdateValue(r, ValueStoragePath, Config.NewStoragePath)
    ELSE r

\* deployReleases, lines 130-133 of the import: the --target override.
ApplyTarget(r) ==
    IF cmd = "import" /\ Config.Target # ""
    THEN [r EXCEPT !.namespace = Config.Target]
    ELSE r

(* ------------------------------ dispatch ------------------------------- *)

\* What HelmClient.Install can return.
InstallResults == {Nil, "ReleaseExists", "InstallError"}

\* lmhelm.ErrorReleaseExists.
ErrorReleaseExists(err) == err = "ReleaseExists"

\* Import.deployRelease on the error Install returned: the value returned and
\* the outcome reported for the release.
ImportDeployRelease_ExistsIsError(err) ==
    IF err # Nil
    THEN [ret |-> err, report |-> "Failed"]
    ELSE [ret |-> Nil, report |-> "Installed"]

ImportDeployRelease(err) ==
    IF err # Nil
    THEN IF ErrorReleaseExists(err)
         THEN [ret |-> Nil, report |-> "Skipped"]
         ELSE [ret |-> err, report |-> "Failed"]
    ELSE [ret |-> Nil, report |-> "Installed"]

\* Transfer.deployRelease: returns nothing, logs every error as a failure.
TransferDeployRelease(err) ==
    IF err # Nil
    THEN [ret |-> Nil, report |-> "Failed"]
    ELSE [ret |-> Nil, report |-> "Installed"]

\* "sem <- 1" can proceed: the channel has a free slot.
SemHasRoom_Unbounded(s, c) == TRUE

SemHasRoom(s, c) == s < c

\* The bound of the final loop of Import.deployReleases: cap(sem).
RefillTarget_OneShort(c) == c - 1

RefillTarget_OneMore(c) == c + 1

RefillTarget(c) == c

\* What deployReleases returns once its loops are over.
DeployReleasesResult_Aggregated ==
    IF \E n \in DOMAIN journey : journey[n] = "Failed"
    THEN "InstallError" ELSE Nil

DeployReleasesResult == Nil

\* Whether deployReleases renders the release instead of installing it.
RenderOnly_Never == FALSE

RenderOnly == Config.DryRun

\* Whether Run returns the error of sanityCheck instead of going on.
AbortOnCheckError_Never(err) == FALSE

AbortOnCheckError(err) == err # Nil

(* -------------------------------- Init --------------------------------- *)

\* The contents State.Path() can have when a run starts: nothing, bytes that
\* do not decode, a manager's record.
RunRemoteValues == {Absent, Garbage, Serialize(InfoOf(ManagerName, 1))}

\* What another process can make of State.Path() during a run: it deletes
\* the record, or another manager writes its own.
RunRemoteChanges == {Absent, Serialize(InfoOf("other", 1))}

\* No backend call made yet; stateReads counts the reads of State.Path()
\* among the reads.
NoOps == [reads |-> 0, stateReads |-> 0, writes |-> 0, deletes |-> 0]

NoRelease == <<>>

ImportConfigs ==
    [NewStoragePath : {"", "newpath"}, Force : BOOLEAN, DryRun : BOOLEAN,
     Namespace : {"", "default"},
     ExcludeNamespaces : {{}, {"default"}},
     Target : {"", "target"},
     Values : {<<>>, << <<OverrideKey, "override">> >>},
     ReleaseName : {""}]

TransferConfigs ==
    [NewStoragePath : {"", "newpath"}, Force : BOOLEAN, DryRun : BOOLEAN,
     Namespace : {""}, ExcludeNamespaces : {{}}, Target : {""},
     Values : {<<>>}, ReleaseName : {""}]

ExportConfigs ==
    [NewStoragePath : {""}, Force : {FALSE}, DryRun : {FALSE},
     Namespace : {""}, ExcludeNamespaces : {{}}, Target : {""},
     Values : {<<>>}, ReleaseName : {"", ManagerName}]

\* The fields of a process that has not started Run.
RunInit ==
    /\ pc = "StoredReleases"
    /\ releases = <<>>
    /\ Info = NilInfo
    /\ checkErr = "unset"
    /\ runErr = "unset"
    /\ idx = 0
    /\ cur = NoRelease
    /\ sem = 0
    /\ wg = 0
    /\ refill = 0
    /\ wpc = [n \in ReleaseNames |-> "none"]
    /\ journey = [n \in ReleaseNames |-> "Candidate"]
    /\ handed = [n \in ReleaseNames |-> NoRelease]
    /\ installCalls = [n \in ReleaseNames |-> 0]
    /\ installRet = [n \in ReleaseNames |-> "unset"]
    /\ deployRet = [n \in ReleaseNames |-> "unset"]
    /\ valuesErr = "unset"
    /\ stateRead = [res |-> "unset", bytes |-> Absent]

\* The fields of a State that no export process has touched.
StateInitial ==
    /\ sinit = FALSE
    /\ calls = 0
    /\ updCalls = 0
    /\ lastOp = "none"
    /\ lastCand = NilInfo
    /\ ret = "unset"
    /\ clean = TRUE
    /\ lastObs = <<>>

\* No manager process of the two-manager setting is running.
OwnerIdle ==
    /\ mgrs = <<>>
    /\ owner = 0
    /\ clobber = <<>>

\* No StoredReleases call is being followed goroutine by goroutine.
StoredIdle ==
    /\ entries = <<>>
    /\ spc = "idle"
    /\ sidx = 0
    /\ rpc = <<>>
    /\ rres = <<>>
    /\ rlocal = <<>>
    /\ sret = <<>>

Init ==
    /\ cmd \in {"import", "transfer"}
    /\ Config \in (IF cmd = "import" THEN ImportConfigs ELSE TransferConfigs)
    /\ semCap \in (IF cmd = "import" THEN 1..MaxThreads ELSE {1})
    /\ stored \in Batches
    /\ remoteState \in RunRemoteValues
    /\ ops = NoOps
    /\ RunInit
    /\ StateInitial
    /\ OwnerIdle
    /\ StoredIdle

(* ------------------------ Run: the main goroutine ---------------------- *)

\* Run, line 1: t.State.Releases.StoredReleases(); an error is log.Fatalf.
RunStoredReleases ==
    /\ pc = "StoredReleases"
    /\ \E failed \in BOOLEAN :
         IF failed
         THEN /\ pc' = "fatal"
              /\ UNCHANGED <<releases, journey>>
         ELSE /\ releases' = stored
              /\ journey' = [n \in ReleaseNames |->
                    IF \E i \in 1..Len(stored) : stored[i].name = n
                    THEN "Candidate" ELSE "NotStored"]
              /\ pc' = IF cmd = "import" THEN "processReleases"
                       ELSE "StateRead"
    /\ ops' = [ops EXCEPT !.reads = @ + 1]
    /\ UNCHANGED <<cmd, Config, semCap, stored, remoteState, Info, checkErr,
                   runErr, idx, cur, sem, wg, refill, wpc, handed,
                   installCalls, installRet, deployRet, valuesErr, stateRead,
                   stateVars>>

\* Import.Run: processReleases (filterReleasesByNamespace, updateValues); an
\* UpdateValue error is returned by Run.
RunProcessReleases ==
    /\ pc = "processReleases"
    /\ LET kept == filterReleasesByNamespace(releases)
           keptNames == {kept[i].name : i \in 1..Len(kept)}
       IN  /\ journey' = [n \in ReleaseNames |->
                IF journey[n] = "Candidate" /\ n \notin keptNames
                THEN "FilteredOut" ELSE journey[n]]
           /\ \E failed \in
                  (IF UpdateValueCalled(kept) THEN BOOLEAN ELSE {FALSE}) :
              \E inPlace \in
                  (IF UpdateValueCalled(kept) /\ ~failed
                   THEN BOOLEAN ELSE {FALSE}) :
                LET err == IF failed THEN "UpdateValueError" ELSE Nil
                IN  /\ valuesErr' = err
                    /\ releases' = IF failed THEN <<>>
                                   ELSE updateValues(kept, inPlace)
                    /\ IF AbortOnValuesError(err)
                       THEN runErr' = err /\ pc' = "done"
                       ELSE runErr' = runErr /\ pc' = "StateRead"
    /\ UNCHANGED <<cmd, Config, semCap, stored, remoteState, ops, Info,
                   checkErr, idx, cur, sem, wg, refill, wpc, handed,
                   installCalls, installRet, deployRet, stateRead,
                   stateVars>>

\* Run: t.State.Read(), the one read of State.Path() of a run. A missing
\* record leaves t.State.Info nil; a backend or decode error is returned by
\* Run.
RunStateRead ==
    /\ pc = "StateRead"
    /\ ops' = [ops EXCEPT !.reads = @ + 1, !.stateReads = @ + 1]
    /\ \E unavailable \in BOOLEAN :
         LET res == IF unavailable THEN "BackendUnavailable"
                    ELSE IF remoteState = Absent THEN "NotFound"
                    ELSE IF UnmarshalErr(remoteState) # Nil
                    THEN "UnmarshalError"
                    ELSE "ok"
         IN  /\ stateRead' = [res |-> res, bytes |-> remoteState]
             /\ Info' = IF res = "ok" THEN Ptr(Unmarshal(remoteState))
                        ELSE NilInfo
             /\ IF StateReadErr(res) # Nil
                THEN runErr' = StateReadErr(res) /\ pc' = "done"
                ELSE runErr' = runErr /\ pc' = "sanityCheck"
    /\ UNCHANGED <<cmd, Config, semCap, stored, remoteState, releases,
                   checkErr, idx, cur, sem, wg, refill, wpc, journey, handed,
                   installCalls, installRet, deployRet, valuesErr,
                   stateVars>>

\* Run: err = t.sanityCheck(); if err != nil { return err }.
RunSanityCheck ==
    /\ pc = "sanityCheck"
    /\ checkErr' = SanityCheckResult
    /\ IF AbortOnCheckError(SanityCheckResult)
       THEN /\ runErr' = SanityCheckResult
            /\ pc' = "done"
            /\ idx' = idx
       ELSE /\ runErr' = runErr
            /\ pc' = "deploy"
            /\ idx' = 1
    /\ UNCHANGED <<cmd, Config, semCap, stored, remoteState, ops, releases,
                   Info, cur, sem, wg, refill, wpc, journey, handed,
                   installCalls, installRet, deployRet, valuesErr, stateRead,
                   stateVars>>

\* deployReleases, one iteration of the range loop up to the dispatch: the
\* --target override, updateManagerRelease (skip on error), the dry-run
\* rendering; a release to install goes on to its "sem <- 1" / wg.Add(1).
DeployNext ==
    /\ pc = "deploy"
    /\ idx <= Len(releases)
    /\ LET r == ApplyTarget(releases[idx])
       IN  \E failed \in (IF IsManagerRewrite(r) THEN BOOLEAN ELSE {FALSE}) :
             IF failed
             THEN /\ journey' = [journey EXCEPT ![r.name] = "RewriteFailed"]
                  /\ idx' = idx + 1
                  /\ UNCHANGED <<pc, cur, handed>>
             ELSE IF RenderOnly
             THEN /\ journey' = [journey EXCEPT ![r.name] = "Rendered"]
                  /\ handed' = [handed EXCEPT
                                  ![r.name] = <<updateManagerRelease(r)>>]
                  /\ idx' = idx + 1
                  /\ UNCHANGED <<pc, cur>>
             ELSE /\ cur' = <<updateManagerRelease(r)>>
                  /\ pc' = "dispatch"
                  /\ UNCHANGED <<idx, journey, handed>>
    /\ UNCHANGED <<cmd, Config, semCap, stored, remoteState, ops, releases,
                   Info, checkErr, runErr, sem, wg, refill, wpc,
                   installCalls, installRet, deployRet, valuesErr, stateRead,
                   stateVars>>

\* Import.deployReleases: "sem <- 1" (blocks while the channel is full), then
\* the go statement.
ImportDispatch ==
    /\ cmd = "import"
    /\ pc = "dispatch"
    /\ SemHasRoom(sem, semCap)
    /\ sem' = sem + 1
    /\ wpc' = [wpc EXCEPT ![cur[1].name] = "spawned"]
    /\ journey' = [journey EXCEPT ![cur[1].name] = "Dispatched"]
    /\ handed' = [handed EXCEPT ![cur[1].name] = cur]
    /\ cur' = NoRelease
    /\ idx' = idx + 1
    /\ pc' = "deploy"
    /\ UNCHANGED <<cmd, Config, semCap, stored, remoteState, ops, releases,
                   Info, checkErr, runErr, wg, refill, installCalls,
                   installRet, deployRet, valuesErr, stateRead,
                   stateVars>>

\* Transfer.deployReleases: wg.Add(1), then the go statement.
TransferDispatch ==
    /\ cmd = "transfer"
    /\ pc = "dispatch"
    /\ wg' = wg + 1
    /\ wpc' = [wpc EXCEPT ![cur[1].name] = "spawned"]
    /\ journey' = [journey EXCEPT ![cur[1].name] = "Dispatched"]
    /\ handed' = [handed EXCEPT ![cur[1].name] = cur]
    /\ cur' = NoRelease
    /\ idx' = idx + 1
    /\ pc' = "deploy"
    /\ UNCHANGED <<cmd, Config, semCap, stored, remoteState, ops, releases,
                   Info, checkErr, runErr, sem, refill, installCalls,
                   installRet, deployRet, valuesErr, stateRead,
                   stateVars>>

\* The range loop is over: on to the wait for the installs.
DeployLoopEnd ==
    /\ pc = "deploy"
    /\ idx > Len(releases)
    /\ pc' = IF cmd = "import" THEN "refill" ELSE "wait"
    /\ refill' = 0
    /\ UNCHANGED <<cmd, Config, semCap, stored, remoteState, ops, releases,
                   Info, checkErr, runErr, idx, cur, sem, wg, wpc, journey,
                   handed, installCalls, installRet, deployRet, valuesErr, stateRead,
                   stateVars>>

\* Import.deployReleases: one "sem <- 1" of the final loop.
ImportRefill ==
    /\ pc = "refill"
    /\ refill < RefillTarget(semCap)
    /\ SemHasRoom(sem, semCap)
    /\ sem' = sem + 1
    /\ refill' = refill + 1
    /\ UNCHANGED <<cmd, Config, semCap, stored, remoteState, ops, pc,
                   releases, Info, checkErr, runErr, idx, cur, wg, wpc,
                   journey, handed, installCalls, installRet, deployRet,
                   valuesErr, stateRead,
                   stateVars>>

\* Import.deployReleases returns, and Run with it.
ImportReturn ==
    /\ pc = "refill"
    /\ refill >= RefillTarget(semCap)
    /\ runErr' = DeployReleasesResult
    /\ pc' = "done"
    /\ UNCHANGED <<cmd, Config, semCap, stored, remoteState, ops, releases,
                   Info, checkErr, idx, cur, sem, wg, refill, wpc, journey,
                   handed, installCalls, installRet, deployRet, valuesErr, stateRead,
                   stateVars>>

\* Transfer.deployReleases: wg.Wait() returns once the counter is zero, and
\* Run returns.
TransferReturn ==
    /\ pc = "wait"
    /\ wg = 0
    /\ runErr' = DeployReleasesResult
    /\ pc' = "done"
    /\ UNCHANGED <<cmd, Config, semCap, stored, remoteState, ops, releases,
                   Info, checkErr, idx, cur, sem, wg, refill, wpc, journey,
                   handed, installCalls, installRet, deployRet, valuesErr, stateRead,
                   stateVars>>

(* ----------------------- Run: the install goroutines ------------------- *)

\* The goroutine of release n calls HelmClient.Install.
InstallStart(n) ==
    /\ wpc[n] = "spawned"
    /\ wpc' = [wpc EXCEPT ![n] = "installing"]
    /\ installCalls' = [installCalls EXCEPT ![n] = @ + 1]
    /\ UNCHANGED <<cmd, Config, semCap, stored, remoteState, ops, pc,
                   releases, Info, checkErr, runErr, idx, cur, sem, wg,
                   refill, journey, handed, installRet, deployRet, valuesErr, stateRead,
                   stateVars>>

\* deployRelease after HelmClient.Install returned err: it reports and
\* returns, whatever err is; the goroutine is left with its deferred call.
AfterInstall_RetryOnError(err) ==
    IF err = "InstallError" THEN "spawned" ELSE "returned"

AfterInstall(err) == "returned"

\* HelmClient.Install returns and deployRelease with it.
InstallReturn(n) ==
    /\ wpc[n] = "installing"
    /\ \E err \in InstallResults :
         LET d == IF cmd = "import" THEN ImportDeployRelease(err)
                  ELSE TransferDeployRelease(err)
         IN  /\ installRet' = [installRet EXCEPT ![n] = err]
             /\ deployRet' = [deployRet EXCEPT ![n] = d.ret]
             /\ journey' = [journey EXCEPT ![n] = d.report]
             /\ wpc' = [wpc EXCEPT ![n] = AfterInstall(err)]
    /\ UNCHANGED <<cmd, Config, semCap, stored, remoteState, ops, pc,
                   releases, Info, checkErr, runErr, idx, cur, sem, wg,
                   refill, handed, installCalls, valuesErr, stateRead,
                   stateVars>>

\* The deferred call of the goroutine: "<-sem" (import), wg.Done() (transfer).
WorkerExit(n) ==
    /\ wpc[n] = "returned"
    /\ IF cmd = "import"
       THEN sem > 0 /\ sem' = sem - 1 /\ wg' = wg
       ELSE wg' = wg - 1 /\ sem' = sem
    /\ wpc' = [wpc EXCEPT ![n] = "exited"]
    /\ UNCHANGED <<cmd, Config, semCap, stored, remoteState, ops, pc,
                   releases, Info, checkErr, runErr, idx, cur, refill,
                   journey, handed, installCalls, installRet, deployRet,
                   valuesErr, stateRead,
                   stateVars>>

\* Another process creates, changes or deletes the State Record after the
\* run has read it (a change before the read is another initial record).
RunBackendChange ==
    /\ pc \in {"sanityCheck", "deploy", "dispatch", "refill", "wait"}
    /\ \E b \in RunRemoteChanges \ {remoteState} : remoteState' = b
    /\ UNCHANGED <<cmd, Config, semCap, stored, ops, runVars, stateVars>>

Next ==
    \/ RunStoredReleases
    \/ RunProcessReleases
    \/ RunStateRead
    \/ RunSanityCheck
    \/ DeployNext
    \/ ImportDispatch
    \/ TransferDispatch
    \/ DeployLoopEnd
    \/ ImportRefill
    \/ ImportReturn
    \/ TransferReturn
    \/ \E n \in ReleaseNames : InstallStart(n)
    \/ \E n \in ReleaseNames : InstallReturn(n)
    \/ \E n \in ReleaseNames : WorkerExit(n)
    \/ RunBackendChange

Spec == Init /\ [][Next]_vars

(* ------------------- Import.Run under fair scheduling ------------------ *)

\* An import without namespace filter, target or value overrides: the batch
\* that StoredReleases returns is the batch deployReleases is given.
InitImport ==
    /\ Init
    /\ cmd = "import"
    /\ Config.Namespace = ""
    /\ Config.ExcludeNamespaces = {}
    /\ Config.Target = ""
    /\ Config.Values = <<>>

NextImport ==
    \/ RunStoredReleases
    \/ RunProcessReleases
    \/ RunStateRead
    \/ RunSanityCheck
    \/ DeployNext
    \/ ImportDispatch
    \/ DeployLoopEnd
    \/ ImportRefill
    \/ ImportReturn
    \/ \E n \in ReleaseNames : InstallStart(n)
    \/ \E n \in ReleaseNames : InstallReturn(n)
    \/ \E n \in ReleaseNames : WorkerExit(n)

\* The Go scheduler runs every goroutine that can run: the main goroutine
\* in deployReleases, and each install goroutine up to its deferred "<-sem".
\* Fairness of InstallReturn is the assumption that every HelmClient.Install
\* call returns.
FairImport ==
    /\ WF_vars(DeployNext)
    /\ WF_vars(ImportDispatch)
    /\ WF_vars(DeployLoopEnd)
    /\ WF_vars(ImportRefill)
    /\ WF_vars(ImportReturn)
    /\ \A n \in ReleaseNames :
         /\ WF_vars(InstallStart(n))
         /\ WF_vars(InstallReturn(n))
         /\ WF_vars(WorkerExit(n))

SpecImportFair == InitImport /\ [][NextImport]_vars /\ FairImport

(* -------------------- the export-side State Record --------------------- *)

\* reflect.DeepEqual on two *Info: both nil, or both non-nil and pointing to
\* equal structs.
DeepEqual_PointerIdentity(a, b) == a = NilInfo /\ b = NilInfo

DeepEqual(a, b) == a = b

\* State.isManagerRelease of a State whose Config.Export.ReleaseName is
\* cfgName, and of the State of the export process.
isManagerReleaseOf(cfgName, name) == cfgName # "" /\ name = cfgName

isManagerRelease(name) == isManagerReleaseOf(Config.ReleaseName, name)

\* State.Init: whether the old record is deleted.
InitDeletes_Always(cfgName) == TRUE

InitDeletes(cfgName) == cfgName # ""

\* State.read on the bytes at State.Path(): the pointer and the error
\* returned; unavailable is the backend failing the read.
ReadInfo(bytes, unavailable) ==
    IF unavailable THEN NilInfo
    ELSE IF bytes = Absent THEN NilInfo
    ELSE IF UnmarshalErr(bytes) # Nil THEN Ptr(ZeroInfo)
    ELSE Ptr(Unmarshal(bytes))

ReadErr(bytes, unavailable) ==
    IF unavailable THEN "BackendUnavailable"
    ELSE IF bytes = Absent THEN "NotFound"
    ELSE UnmarshalErr(bytes)

\* A release of the list handed to State.Update: GetName and GetVersion.
Observed(name, v) == [name |-> name, version |-> v]

\* The release lists State.Update is called with: none, another release
\* only, the manager release at some revision alone or after another
\* release.
ObservedLists ==
    {<<>>, <<Observed("app2", 1)>>}
      \cup {<<Observed(ManagerName, v)>> : v \in 1..MaxVersion}
      \cup {<<Observed("app2", 1), Observed(ManagerName, v)>> :
               v \in 1..MaxVersion}

\* State.Update, the range loop: the index of the first release of the list
\* that isManagerRelease accepts, 0 when there is none.
ManagerIndexOf(cfgName, obs) ==
    IF \E i \in 1..Len(obs) : isManagerReleaseOf(cfgName, obs[i].name)
    THEN CHOOSE i \in 1..Len(obs) :
            /\ isManagerReleaseOf(cfgName, obs[i].name)
            /\ \A j \in 1..(i - 1) :
                  ~isManagerReleaseOf(cfgName, obs[j].name)
    ELSE 0

ManagerIndex(obs) == ManagerIndexOf(Config.ReleaseName, obs)

\* State.Update: what it does with the list, "ignore" (return nil at once),
\* "updateState" or "delete".
UpdatePath_NeverDeletes(obs) ==
    IF Config.ReleaseName = "" THEN "ignore"
    ELSE IF ManagerIndex(obs) # 0 THEN "updateState"
    ELSE "ignore"

UpdatePathOf(cfgName, obs) ==
    IF cfgName = "" THEN "ignore"
    ELSE IF ManagerIndexOf(cfgName, obs) # 0 THEN "updateState"
    ELSE "delete"

UpdatePath(obs) == UpdatePathOf(Config.ReleaseName, obs)

\* State.updateState: the value of update when the write is decided, from
\* s.init on entry, the error e and the pointer oldInfo of the read-back, and
\* the candidate i.
NeedsWrite_FirstOnly(init, e, i, oldInfo) == ~init

NeedsWrite(init, e, i, oldInfo) ==
    IF init
    THEN e # Nil \/ ~DeepEqual(i, oldInfo)
    ELSE TRUE

InitState ==
    /\ cmd = "export"
    /\ Config \in ExportConfigs
    /\ semCap = 1
    /\ stored = <<>>
    /\ remoteState \in RemoteValues
    /\ ops = NoOps
    /\ RunInit
    /\ StateInitial
    /\ OwnerIdle
    /\ StoredIdle

\* State.Init: s.init = false, and the old record deleted when a manager
\* release name is configured (a delete error is logged only).
StateInit ==
    /\ calls < MaxCalls
    /\ calls' = calls + 1
    /\ sinit' = FALSE
    /\ lastOp' = "Init"
    /\ ret' = Nil
    /\ clean' = (clean /\ calls = 0)
    /\ IF InitDeletes(Config.ReleaseName)
       THEN /\ ops' = [ops EXCEPT !.deletes = @ + 1]
            /\ \E failed \in BOOLEAN :
                 remoteState' = IF failed THEN remoteState ELSE Absent
       ELSE UNCHANGED <<ops, remoteState>>
    /\ UNCHANGED <<cmd, Config, semCap, stored, runVars, lastObs,
                   ownerVars, storedVars, updCalls, lastCand>>

\* State.Update without a configured manager release name: nothing is done.
StateUpdateIgnored(obs) ==
    /\ calls < MaxCalls
    /\ UpdatePath(obs) = "ignore"
    /\ calls' = calls + 1
    /\ lastOp' = "UpdateIgnored"
    /\ lastObs' = obs
    /\ ret' = Nil
    /\ UNCHANGED <<cmd, Config, semCap, stored, remoteState, ops, runVars,
                   ownerVars, storedVars,
                   sinit, updCalls, lastCand, clean>>

\* State.Update when the manager release is in the list: updateState with
\* the candidate Info made of its revision (read-back unless first, write
\* when NeedsWrite).
StateUpdateManager(obs) ==
    /\ calls < MaxCalls
    /\ UpdatePath(obs) = "updateState"
    /\ lastObs' = obs
    /\ calls' = calls + 1
    /\ updCalls' = updCalls + 1
    /\ lastOp' = "updateState"
    /\ sinit' = TRUE
    /\ LET i == Ptr(InfoOf(Config.ReleaseName,
                            obs[ManagerIndex(obs)].version))
       IN  /\ lastCand' = i
           /\ \E unavailable \in (IF sinit THEN BOOLEAN ELSE {FALSE}),
                 writeFails \in BOOLEAN :
                LET e == IF sinit THEN ReadErr(remoteState, unavailable)
                         ELSE Nil
                    oldInfo == IF sinit
                               THEN ReadInfo(remoteState, unavailable)
                               ELSE NilInfo
                    update == NeedsWrite(sinit, e, i, oldInfo)
                IN  /\ ops' = [ops EXCEPT
                                 !.reads = IF sinit THEN @ + 1 ELSE @,
                                 !.writes = IF update THEN @ + 1 ELSE @]
                    /\ remoteState' = IF update /\ ~writeFails
                                      THEN Serialize(i[1]) ELSE remoteState
                    /\ ret' = IF update /\ writeFails
                              THEN "BackendUnavailable" ELSE Nil
                    /\ clean' = (/\ clean
                                 /\ ~(sinit /\ e # Nil)
                                 /\ ~(update /\ writeFails)
                                 /\ (updCalls = 0 \/ lastCand = i))
    /\ UNCHANGED <<cmd, Config, semCap, stored, runVars,
                   ownerVars, storedVars>>

\* State.Update when no release of the list is the manager release:
\* s.delete().
StateUpdateDelete(obs) ==
    /\ calls < MaxCalls
    /\ UpdatePath(obs) = "delete"
    /\ lastObs' = obs
    /\ calls' = calls + 1
    /\ lastOp' = "delete"
    /\ clean' = FALSE
    /\ ops' = [ops EXCEPT !.deletes = @ + 1]
    /\ \E failed \in BOOLEAN :
         /\ remoteState' = IF failed THEN remoteState ELSE Absent
         /\ ret' = IF failed THEN "BackendUnavailable" ELSE Nil
    /\ UNCHANGED <<cmd, Config, semCap, stored, runVars,
                   ownerVars, storedVars, sinit, updCalls,
                   lastCand>>

\* State.Remove: s.delete().
StateRemove ==
    /\ calls < MaxCalls
    /\ calls' = calls + 1
    /\ lastOp' = "Remove"
    /\ clean' = FALSE
    /\ ops' = [ops EXCEPT !.deletes = @ + 1]
    /\ \E failed \in BOOLEAN :
         /\ remoteState' = IF failed THEN remoteState ELSE Absent
         /\ ret' = IF failed THEN "BackendUnavailable" ELSE Nil
    /\ UNCHANGED <<cmd, Config, semCap, stored, runVars, lastObs,
                   ownerVars, storedVars, sinit, updCalls,
                   lastCand>>

\* Somebody else changes, replaces or deletes the object at State.Path().
BackendChange ==
    /\ lastOp # "change"
    /\ \E b \in RemoteValues \ {remoteState} : remoteState' = b
    /\ lastOp' = "change"
    /\ clean' = FALSE
    /\ UNCHANGED <<cmd, Config, semCap, stored, runVars, lastObs,
                   ownerVars, storedVars, ops, sinit, calls,
                   updCalls, lastCand, ret>>

NextState ==
    \/ StateInit
    \/ \E obs \in ObservedLists : StateUpdateIgnored(obs)
    \/ \E obs \in ObservedLists : StateUpdateManager(obs)
    \/ \E obs \in ObservedLists : StateUpdateDelete(obs)
    \/ StateRemove
    \/ BackendChange

SpecState == InitState /\ [][NextState]_vars

(* --------------------- State.StoredReleases ---------------------------- *)

\* constants.ReleaseExtension and a name of the listing: what precedes the
\* extension, and the extension.
ReleaseExtension == ".release"
File(stem, ext) == [stem |-> stem, ext |-> ext]

\* What Backend.List can return for the storage path: the release files, a
\* file that is nothing but the extension, and the State Record's file.
ListedFiles ==
    <<File("", ReleaseExtension), File("state", ".json")>>
        \o [k \in ReleaseIds |-> File(NameOf(k), ReleaseExtension)]

RECURSIVE SubSeq01(_, _, _)
\* The elements of fs whose index is in S, in the order of fs, from k on.
SubSeq01(fs, S, k) ==
    IF k > Len(fs) THEN <<>>
    ELSE (IF k \in S THEN <<fs[k]>> ELSE <<>>) \o SubSeq01(fs, S, k + 1)

Listings == {SubSeq01(ListedFiles, S, 1) : S \in SUBSET (1..Len(ListedFiles))}

\* StoredReleaseNames: the regular expression "^.+<ReleaseExtension>$".
MatchString_AnyStem(n) == n.ext = ReleaseExtension

MatchString(n) == n.stem # "" /\ n.ext = ReleaseExtension

\* StoredReleaseNames: the names of the listing that match, in its order.
StoredReleaseNames(names) == SelectSeq(names, MatchString)

\* A process about to call StoredReleases on a listing.
InitStored ==
    /\ cmd = "transfer"
    /\ Config \in {c \in TransferConfigs :
                     c.NewStoragePath = "" /\ ~c.Force /\ ~c.DryRun}
    /\ semCap = 1
    /\ stored = <<>>
    /\ remoteState = Absent
    /\ ops = NoOps
    /\ RunInit
    /\ StateInitial
    /\ OwnerIdle
    /\ entries \in Listings
    /\ spc = "StoredReleaseNames"
    /\ sidx = 0
    /\ rpc = <<>>
    /\ rres = <<>>
    /\ rlocal = <<>>
    /\ sret = <<>>

\* StoredReleases: filenames, err := s.StoredReleaseNames(); an error of
\* Backend.List is returned with the empty result.
StoredNames ==
    /\ spc = "StoredReleaseNames"
    /\ \E failed \in BOOLEAN :
         IF failed
         THEN /\ spc' = "failed"
              /\ UNCHANGED <<entries, sidx, rpc, rres, rlocal>>
         ELSE LET filenames == StoredReleaseNames(entries)
              IN  /\ entries' = filenames
                  /\ rpc' = [i \in 1..Len(filenames) |-> "none"]
                  /\ rres' = [i \in 1..Len(filenames) |-> "unset"]
                  /\ rlocal' = [i \in 1..Len(filenames) |-> <<>>]
                  /\ sidx' = 1
                  /\ spc' = "spawn"
    /\ UNCHANGED <<cmd, Config, semCap, stored, remoteState, ops, runVars,
                   exportVars, ownerVars, sret>>

\* StoredReleases, one iteration of the range loop: wg.Add(1) and the go
\* statement for the next file name.
StoredSpawn ==
    /\ spc = "spawn"
    /\ sidx <= Len(entries)
    /\ rpc' = [rpc EXCEPT ![sidx] = "ReadRelease"]
    /\ sidx' = sidx + 1
    /\ UNCHANGED <<cmd, Config, semCap, stored, remoteState, ops, runVars,
                   exportVars, ownerVars, entries, spc, rres, rlocal, sret>>

\* StoredReleases: the range loop is over; wg.Wait() is next.
StoredLoopEnd ==
    /\ spc = "spawn"
    /\ sidx > Len(entries)
    /\ spc' = "wait"
    /\ UNCHANGED <<cmd, Config, semCap, stored, remoteState, ops, runVars,
                   exportVars, ownerVars, entries, sidx, rpc, rres, rlocal,
                   sret>>

\* A reader goroutine: r, e := s.ReadRelease(f). On an error (the backend
\* read or release.FromFile) it logs and returns, which runs wg.Done().
ReaderRead(i) ==
    /\ rpc[i] = "ReadRelease"
    /\ \E e \in {Nil, "BackendUnavailable", "DecodeError"} :
         /\ rres' = [rres EXCEPT ![i] = e]
         /\ rpc' = [rpc EXCEPT ![i] = IF e = Nil THEN "load" ELSE "exited"]
    /\ UNCHANGED <<cmd, Config, semCap, stored, remoteState, ops, runVars,
                   exportVars, ownerVars, entries, spc, sidx, rlocal, sret>>

\* A reader goroutine: "*ret = append(*ret, r)", the read of *ret. Nothing
\* orders it with the other readers' accesses of *ret.
ReaderLoad(i) ==
    /\ rpc[i] = "load"
    /\ rlocal' = [rlocal EXCEPT ![i] = sret]
    /\ rpc' = [rpc EXCEPT ![i] = "store"]
    /\ UNCHANGED <<cmd, Config, semCap, stored, remoteState, ops, runVars,
                   exportVars, ownerVars, entries, spc, sidx, rres, sret>>

\* A reader goroutine: "*ret = append(*ret, r)", the write of *ret with the
\* slice read before extended by r; then the deferred wg.Done().
ReaderStore(i) ==
    /\ rpc[i] = "store"
    /\ sret' = Append(rlocal[i], entries[i].stem)
    /\ rpc' = [rpc EXCEPT ![i] = "exited"]
    /\ UNCHANGED <<cmd, Config, semCap, stored, remoteState, ops, runVars,
                   exportVars, ownerVars, entries, spc, sidx, rres, rlocal>>

\* StoredReleases: wg.Wait() returns when every reader has run wg.Done();
\* return ret, err.
StoredReturn ==
    /\ spc = "wait"
    /\ \A i \in 1..Len(entries) : rpc[i] = "exited"
    /\ spc' = "returned"
    /\ UNCHANGED <<cmd, Config, semCap, stored, remoteState, ops, runVars,
                   exportVars, ownerVars, entries, sidx, rpc, rres, rlocal,
                   sret>>

NextStored ==
    \/ StoredNames
    \/ StoredSpawn
    \/ StoredLoopEnd
    \/ \E i \in 1..Len(rpc) : ReaderRead(i)
    \/ \E i \in 1..Len(rpc) : ReaderLoad(i)
    \/ \E i \in 1..Len(rpc) : ReaderStore(i)
    \/ StoredReturn

SpecStored == InitStored /\ [][NextStored]_vars

(* ------------------ two managers on one storage path ------------------- *)

\* The State of a manager process: its Config.Export.ReleaseName, its init
\* field.
ManagerState(name) == [name |-> name, init |-> FALSE]

Managers == 1..2

\* Two export processes configured with the same storage path, on a path
\* that holds no record yet.
InitOwners ==
    /\ cmd = "export"
    /\ Config \in {c \in ExportConfigs : c.ReleaseName = ManagerName}
    /\ semCap = 1
    /\ stored = <<>>
    /\ remoteState = Absent
    /\ ops = NoOps
    /\ RunInit
    /\ StateInitial
    /\ StoredIdle
    /\ mgrs \in {<<ManagerState(a), ManagerState(b)>> :
                   a, b \in {"", ManagerName}}
    /\ owner = 0
    /\ clobber = <<>>

\* What a backend call of manager m that leaves newRemote at State.Path()
\* does to the record: the manager whose write put the record there, and
\* the first change or delete of a record another manager had written.
Outcome(m, op, newRemote) ==
    /\ remoteState' = newRemote
    /\ owner' = IF newRemote = remoteState THEN owner
                ELSE IF newRemote = Absent THEN 0
                ELSE m
    /\ clobber' = IF /\ clobber = <<>>
                     /\ newRemote # remoteState
                     /\ owner \notin {0, m}
                  THEN <<[by |-> m, of |-> owner, op |-> op]>>
                  ELSE clobber

\* State.Init of manager m.
OwnerInit(m) ==
    /\ calls < MaxCalls
    /\ calls' = calls + 1
    /\ mgrs' = [mgrs EXCEPT ![m].init = FALSE]
    /\ IF InitDeletes(mgrs[m].name)
       THEN /\ ops' = [ops EXCEPT !.deletes = @ + 1]
            /\ \E failed \in BOOLEAN :
                 Outcome(m, "Init", IF failed THEN remoteState ELSE Absent)
       ELSE UNCHANGED <<ops, remoteState, owner, clobber>>
    /\ UNCHANGED <<cmd, Config, semCap, stored, runVars, storedVars, sinit,
                   updCalls, lastOp, lastCand, ret, clean, lastObs>>

\* State.Update of manager m without a configured manager release name.
OwnerUpdateIgnored(m, obs) ==
    /\ calls < MaxCalls
    /\ UpdatePathOf(mgrs[m].name, obs) = "ignore"
    /\ calls' = calls + 1
    /\ UNCHANGED <<cmd, Config, semCap, stored, remoteState, ops, runVars,
                   storedVars, ownerVars, sinit, updCalls, lastOp, lastCand,
                   ret, clean, lastObs>>

\* State.Update of manager m with its manager release in the list:
\* updateState.
OwnerUpdateManager(m, obs) ==
    /\ calls < MaxCalls
    /\ UpdatePathOf(mgrs[m].name, obs) = "updateState"
    /\ calls' = calls + 1
    /\ mgrs' = [mgrs EXCEPT ![m].init = TRUE]
    /\ LET init == mgrs[m].init
           i == Ptr(InfoOf(mgrs[m].name,
                    obs[ManagerIndexOf(mgrs[m].name, obs)].version))
       IN  \E unavailable \in (IF init THEN BOOLEAN ELSE {FALSE}),
              writeFails \in BOOLEAN :
             LET e == IF init THEN ReadErr(remoteState, unavailable)
                      ELSE Nil
                 oldInfo == IF init THEN ReadInfo(remoteState, unavailable)
                            ELSE NilInfo
                 update == NeedsWrite(init, e, i, oldInfo)
             IN  /\ ops' = [ops EXCEPT
                              !.reads = IF init THEN @ + 1 ELSE @,
                              !.writes = IF update THEN @ + 1 ELSE @]
                 /\ Outcome(m, "updateState",
                            IF update /\ ~writeFails
                            THEN Serialize(i[1]) ELSE remoteState)
    /\ UNCHANGED <<cmd, Config, semCap, stored, runVars, storedVars, sinit,
                   updCalls, lastOp, lastCand, ret, clean, lastObs>>

\* State.Update of manager m with a name configured and no such release in
\* the list: s.delete().
OwnerUpdateDelete(m, obs) ==
    /\ calls < MaxCalls
    /\ UpdatePathOf(mgrs[m].name, obs) = "delete"
    /\ calls' = calls + 1
    /\ ops' = [ops EXCEPT !.deletes = @ + 1]
    /\ \E failed \in BOOLEAN :
         Outcome(m, "delete", IF failed THEN remoteState ELSE Absent)
    /\ UNCHANGED <<cmd, Config, semCap, stored, runVars, storedVars, mgrs,
                   sinit, updCalls, lastOp, lastCand, ret, clean, lastObs>>

NextOwners ==
    \/ \E m \in Managers : OwnerInit(m)
    \/ \E m \in Managers, obs \in ObservedLists : OwnerUpdateIgnored(m, obs)
    \/ \E m \in Managers, obs \in ObservedLists : OwnerUpdateManager(m, obs)
    \/ \E m \in Managers, obs \in ObservedLists : OwnerUpdateDelete(m, obs)

SpecOwners == InitOwners /\ [][NextOwners]_vars

(* ------------------------------- claims -------------------------------- *)

\* The conflicting case of the decision table: a State Record was read and no
\* new storage path is given.
ConflictCase == Info # NilInfo /\ Config.NewStoragePath = ""

\* The install calls that have started and not finished.
InFlight == {n \in ReleaseNames : wpc[n] = "installing"}

\* The releases whose install goroutine was launched.
Launched == {n \in ReleaseNames : wpc[n] # "none"}

\* deployReleases was entered and has returned.
DeployReturned == pc = "done" /\ checkErr = Nil

\* C1: Import.sanityCheck returns nil in every non-conflicting combination
\* (state present and new path given, state absent and new path given, state
\* absent and no new path), whatever --force and --dry-run are.
C1_NonConflictingProceeds ==
    (cmd = "import" /\ checkErr # "unset" /\ ~ConflictCase) => checkErr = Nil

C1_Witness ==
    /\ cmd = "import"
    /\ checkErr = Nil
    /\ Info = NilInfo
    /\ Config.NewStoragePath = ""
    /\ ~Config.Force
    /\ ~Config.DryRun

\* C2: in the conflicting case the resolver of import and of transfer fails
\* with the state-conflict error when neither --force nor --dry-run is set and
\* returns nil when either is set, and it has written or deleted nothing on
\* the backend.
C2_ConflictResolution ==
    (checkErr # "unset" /\ ConflictCase) =>
        /\ checkErr = IF Config.Force \/ Config.DryRun
                      THEN Nil ELSE "StateConflict"
        /\ ops.writes = 0
        /\ ops.deletes = 0

C2_Witness ==
    /\ cmd = "import"
    /\ ConflictCase
    /\ ~Config.Force
    /\ Config.DryRun
    /\ checkErr = Nil

\* C3: when the conflict check returns an error, Run returns that error and
\* no release has been rendered, dispatched or handed to Install.
C3_FailClosed ==
    (checkErr \notin {"unset", Nil}) =>
        /\ pc = "done"
        /\ runErr = checkErr
        /\ \A n \in ReleaseNames :
             /\ installCalls[n] = 0
             /\ wpc[n] = "none"
             /\ handed[n] = NoRelease
             /\ journey[n] \in {"NotStored", "Candidate", "FilteredOut"}

C3_Witness ==
    /\ checkErr = "StateConflict"
    /\ runErr = "StateConflict"
    /\ Len(releases) > 1

\* C4: during Import.deployReleases at most cap(sem) install calls are in
\* flight, also when the batch is larger than the permit pool.
C4_BoundedDispatch ==
    cmd = "import" => Cardinality(InFlight) <= semCap

C4_Witness ==
    /\ cmd = "import"
    /\ Len(releases) > semCap
    /\ pc = "dispatch"
    /\ Cardinality(InFlight) = semCap

\* C5: when deployReleases (import and transfer) has returned, every install
\* goroutine it launched has finished its install and run its deferred
\* release, and its release is installed, skipped or failed.
C5_ReturnsAfterInstalls ==
    DeployReturned =>
        \A n \in Launched :
            /\ wpc[n] = "exited"
            /\ installRet[n] # "unset"
            /\ journey[n] \in {"Installed", "Skipped", "Failed"}

C5_Witness ==
    /\ cmd = "import"
    /\ DeployReturned
    /\ Cardinality(Launched) > semCap
    /\ \A n \in Launched : wpc[n] = "exited"

\* C6: an install failure never aborts the batch: when deployReleases has
\* returned it has returned nil, and every release of the batch that reached
\* the dispatch (not rendered by a dry run, not skipped by a failure of its
\* own manager-path rewrite) was handed to Install once, whichever installs
\* failed.
C6_FailureDoesNotAbort ==
    DeployReturned =>
        /\ runErr = Nil
        /\ \A i \in 1..Len(releases) :
             \/ installCalls[releases[i].name] = 1
             \/ journey[releases[i].name] \in {"Rendered", "RewriteFailed"}

C6_Witness ==
    /\ DeployReturned
    /\ runErr = Nil
    /\ Len(releases) > 2
    /\ journey[releases[1].name] = "Failed"
    /\ \A i \in 2..Len(releases) : installCalls[releases[i].name] = 1

C8_DryRunMutatesNothing ==
    Config.DryRun =>
        /\ \A n \in ReleaseNames : installCalls[n] = 0 /\ wpc[n] = "none"
        /\ ops.writes = 0
        /\ ops.deletes = 0
        /\ pc = "done" /\ runErr = Nil =>
             \A i \in 1..Len(releases) :
                 \/ journey[releases[i].name] = "RewriteFailed"
                 \/ /\ journey[releases[i].name] = "Rendered"
                    /\ handed[releases[i].name] =
                         <<updateManagerRelease(ApplyTarget(releases[i]))>>

C8_Witness ==
    /\ Config.DryRun
    /\ ~Config.Force
    /\ ConflictCase
    /\ pc = "done"
    /\ runErr = Nil
    /\ Len(releases) > 1
    /\ \A i \in 1..Len(releases) : journey[releases[i].name] = "Rendered"

\* C9: updateState called twice or more in one process with the same
\* candidate, with no backend change and no failed call in between, has
\* written the record exactly once.
C9_UpdateIdempotent ==
    (updCalls >= 2 /\ clean) => ops.writes = 1

C9_Witness ==
    /\ updCalls = 2
    /\ clean
    /\ ops.writes = 1
    /\ ops.reads = 1

\* C10: whenever updateState has returned nil for a candidate, the record at
\* State.Path() decodes to that candidate, whatever updates, backend changes,
\* deletions and read failures came before.
C10_UpdateConverges ==
    (lastOp = "updateState" /\ ret = Nil) =>
        /\ remoteState # Absent
        /\ UnmarshalErr(remoteState) = Nil
        /\ Ptr(Unmarshal(remoteState)) = lastCand

C10_Witness ==
    /\ lastOp = "updateState"
    /\ ret = Nil
    /\ updCalls >= 2
    /\ ~clean
    /\ ops.writes >= 2
    /\ ops.reads >= 1
    /\ Ptr(Unmarshal(remoteState)) = lastCand

(* ------------------------ C12: namespace filter ------------------------ *)

\* The names of the releases the run works on after processReleases.
BatchNames == {releases[i].name : i \in 1..Len(releases)}

\* Whether the filter is to retain a release of namespace ns: the include
\* namespace decides when there is one, else the exclude-list when there is
\* one, else everything is retained.
Retained(ns) ==
    IF Config.Namespace # "" THEN ns = Config.Namespace
    ELSE IF Config.ExcludeNamespaces # {} THEN ns \notin Config.ExcludeNamespaces
    ELSE TRUE

\* C12: once an import has filtered its batch, a stored release is filtered
\* out if and only if the allow-list-first rule does not retain it, and when
\* the override stage succeeded the batch is the retained stored releases.
C12_AllowListPrecedence ==
    (cmd = "import" /\ valuesErr # "unset") =>
        /\ \A i \in 1..Len(stored) :
             journey[stored[i].name] = "FilteredOut"
                <=> ~Retained(stored[i].namespace)
        /\ valuesErr = Nil =>
             BatchNames = {stored[i].name : i \in
                 {j \in 1..Len(stored) : Retained(stored[j].namespace)}}

\* An import whose include namespace is also in the exclude-list retained a
\* release of that namespace and filtered another release out.
C12_Witness ==
    /\ cmd = "import"
    /\ valuesErr = Nil
    /\ Config.Namespace = "default"
    /\ Config.ExcludeNamespaces = {"default"}
    /\ \E i, j \in 1..Len(stored) :
         /\ stored[i].namespace = "default"
         /\ stored[i].name \in BatchNames
         /\ journey[stored[j].name] = "FilteredOut"

(* --------------------- C14: Transfer.sanityCheck ----------------------- *)

\* C14: the conflict check of a transfer returns what the decision table of
\* the import returns on the same State Record, new path, force and dry-run;
\* in particular without a State Record and without a new path it succeeds.
C14_TransferFollowsImportTable ==
    (cmd = "transfer" /\ checkErr # "unset") =>
        checkErr = ImportSanityCheck(Info, Config.NewStoragePath,
                                     Config.Force, Config.DryRun)

(* ------------------------ C15: NotFound on read ------------------------ *)

C17_ValuesFailureAborts ==
    valuesErr = "UpdateValueError" =>
        /\ pc = "done"
        /\ runErr = "UpdateValueError"
        /\ checkErr = "unset"
        /\ ops.stateReads = 0
        /\ \A n \in ReleaseNames :
             /\ journey[n] \in {"NotStored", "Candidate", "FilteredOut"}
             /\ handed[n] = NoRelease
             /\ wpc[n] = "none"
             /\ installCalls[n] = 0

\* The override stage failed on a batch of at least two retained releases.
C17_Witness ==
    /\ valuesErr = "UpdateValueError"
    /\ pc = "done"
    /\ Cardinality({n \in ReleaseNames : journey[n] = "Candidate"}) >= 2

(* ------------------- C18: propagation of the overrides ----------------- *)

\* Whether release r carries every configured key/value override.
CarriesOverrides(r) ==
    \A j \in 1..Len(Config.Values) :
        r.values[Config.Values[j][1]] = Config.Values[j][2]

\* C18: after the override stage succeeded, every release of the batch that
\* updateValues returned, and every release handed to the install or the
\* rendering, carries every configured override.
C18_OverridesPropagated ==
    (cmd = "import" /\ valuesErr = Nil) =>
        /\ \A i \in 1..Len(releases) : CarriesOverrides(releases[i])
        /\ \A n \in ReleaseNames :
             handed[n] # NoRelease => CarriesOverrides(handed[n][1])

(* -------------------- C19: manager-release path rewrite ---------------- *)

\* The release of the batch named n, as the deploy loop takes it up.
BatchRelease(n) ==
    LET i == CHOOSE k \in 1..Len(releases) : releases[k].name = n
    IN  ApplyTarget(releases[i])

\* Whether the release named n is to have its storage path rewritten: a new
\* path is given, a State Record is present and names n.
ShouldRewrite(info, n) ==
    /\ Config.NewStoragePath # ""
    /\ info # NilInfo
    /\ n = info[1].ReleaseName

\* The releases that went through the deploy loop to an install or a
\* rendering.
Handed == {n \in ReleaseNames : handed[n] # NoRelease}

\* C19: a release handed to the install or the rendering has the new path
\* under the storage-path key if and only if a new path is given, a State
\* Record is present and the release bears its ReleaseName; nothing else of
\* the release is changed by the stage; and a release whose rewrite failed
\* is the one to be rewritten, is not handed on, and every other release of
\* the batch is.
C19_ManagerRewrite ==
    /\ \A n \in Handed :
         LET h == handed[n][1]
             r == BatchRelease(n)
         IN  /\ h.values[ValueStoragePath] = Config.NewStoragePath
                  <=> ShouldRewrite(Info, n)
             /\ ~ShouldRewrite(Info, n) => h = r
             /\ h.name = r.name /\ h.namespace = r.namespace
             /\ h.values[OverrideKey] = r.values[OverrideKey]
    /\ \A n \in ReleaseNames :
         journey[n] = "RewriteFailed" =>
             /\ ShouldRewrite(Info, n)
             /\ n \notin Handed
             /\ installCalls[n] = 0
             /\ DeployReturned =>
                  \A m \in BatchNames \ {n} : m \in Handed

\* A run with a new path and the manager's record handed on the manager
\* release with the new path and another release as it was.
C19_Witness ==
    /\ Config.NewStoragePath = "newpath"
    /\ Info # NilInfo
    /\ ManagerName \in Handed
    /\ handed[ManagerName][1].values[ValueStoragePath] = "newpath"
    /\ \E n \in Handed \ {ManagerName} :
         handed[n][1].values[ValueStoragePath] = "stored"

(* ----------------------- C20: one read of the state -------------------- *)

\* The State Record as the one read of the run decoded it.
SnapshotInfo ==
    IF stateRead.res = "ok" THEN Ptr(Unmarshal(stateRead.bytes)) ELSE NilInfo

\* What the conflict check returns on the record read at the start.
SnapshotCheck ==
    IF cmd = "import"
    THEN ImportSanityCheck(SnapshotInfo, Config.NewStoragePath, Config.Force,
                           Config.DryRun)
    ELSE TransferSanityCheck(Config.NewStoragePath, Config.Force,
                             Config.DryRun)

\* C20: a run reads the State Record at most once, and has read it when the
\* conflict check is made; no release is rendered or dispatched before the
\* check passed; and whatever the backend holds by then, the check and the
\* manager-release rewrite come out as the record read decides.
C20_ReadOnceBeforeCheck ==
    /\ ops.stateReads <= 1
    /\ checkErr # "unset" =>
         /\ ops.stateReads = 1
         /\ checkErr = SnapshotCheck
    /\ \A n \in ReleaseNames :
         (n \in Handed \/ wpc[n] # "none"
            \/ journey[n] \in {"Rendered", "Dispatched", "RewriteFailed"})
            => checkErr = Nil
    /\ \A n \in Handed :
         handed[n][1].values[ValueStoragePath] = Config.NewStoragePath
            <=> ShouldRewrite(SnapshotInfo, n)

\* The record was deleted after the run had read it, and the run went on to
\* rewrite and hand on the manager release all the same.
C20_Witness ==
    /\ stateRead.res = "ok"
    /\ remoteState = Absent
    /\ checkErr = Nil
    /\ ManagerName \in Handed
    /\ handed[ManagerName][1].values[ValueStoragePath] = "newpath"

(* ------------------------ C16: State.Update lifecycle ------------------ *)

\* A step that is one call of State.Update.
UpdateStep ==
    /\ calls' = calls + 1
    /\ lastOp' \in {"UpdateIgnored", "updateState", "delete"}

\* Whether the list the Update call was given holds a release bearing the
\* configured manager release name.
ManagerObserved ==
    \E i \in 1..Len(lastObs') : lastObs'[i].name = Config.ReleaseName

\* C16: a call of State.Update with a manager release name configured and no
\* release of that name in the list issues the delete of the State Record
\* (which is gone when the call returns nil); with such a release in the
\* list it issues no delete and a record that was there is still there; and
\* without a configured name it makes no backend call and leaves the record
\* alone.
C16_UpdateLifecycle ==
    [][UpdateStep =>
        /\ (Config.ReleaseName # "" /\ ~ManagerObserved) =>
              /\ ops'.deletes = ops.deletes + 1
              /\ ret' = Nil => remoteState' = Absent
        /\ (Config.ReleaseName # "" /\ ManagerObserved) =>
              /\ ops'.deletes = ops.deletes
              /\ remoteState # Absent => remoteState' # Absent
        /\ Config.ReleaseName = "" =>
              /\ ops' = ops
              /\ remoteState' = remoteState]_vars

\* An Update wrote the record, and a later Update, given a list without the
\* manager release, deleted it.
C16_Witness ==
    /\ Config.ReleaseName = ManagerName
    /\ lastOp = "delete"
    /\ lastObs = <<Observed("app2", 1)>>
    /\ ret = Nil
    /\ ops.writes >= 1
    /\ remoteState = Absent

(* ---------------------- C13: StoredReleases result --------------------- *)

\* How many elements of the sequence q equal x.
Occurrences(q, x) == Cardinality({k \in 1..Len(q) : q[k] = x})

\* C13: when StoredReleases has returned, its result holds exactly once the
\* release of every matched file whose ReadRelease succeeded, and nothing of
\* a file whose ReadRelease failed.
C13_OnePerDecodedFile ==
    spc = "returned" =>
        /\ \A i \in 1..Len(entries) :
             Occurrences(sret, entries[i].stem)
                = (IF rres[i] = Nil THEN 1 ELSE 0)
        /\ Len(sret) = Cardinality({i \in 1..Len(entries) : rres[i] = Nil})

(* ---------------------- C11: ownership of the path --------------------- *)

\* C11 as stated: with two managers running Init and Update on one storage
\* path, no State Record written by one of them is overwritten or deleted by
\* the other.
C11_NoForeignOverwrite == clobber = <<>>

\* C11 as amended: a record one manager wrote can be overwritten or deleted
\* by the other, but only by a manager that has a manager release name
\* configured, and the record at the path is the one of the manager that
\* wrote last: a manager that has none configured has written no record.
C11_OnlyConfiguredManagersOverwrite ==
    /\ clobber # <<>> => mgrs[clobber[1].by].name # ""
    /\ owner # 0 =>
         /\ mgrs[owner].name # ""
         /\ UnmarshalErr(remoteState) = Nil
         /\ Unmarshal(remoteState).ReleaseName = mgrs[owner].name

\* The second manager's Update replaced the record the first had written.
C11_Witness ==
    /\ clobber = <<[by |-> 2, of |-> 1, op |-> "updateState"]>>
    /\ owner = 2
    /\ remoteState # Absent

(* ----------------------------- C21: no retries ------------------------- *)

\* The terminal states of a release's journey through the orchestrator.
Terminal == {"FilteredOut", "Rendered", "Installed", "Skipped", "Failed"}

\* The terminal states a release can be in at once, told from what was done
\* with it: filtered out, rendered, or the outcome of its install call (a
\* release that exists already is a skip of the import and a failure of the
\* transfer).
TerminalStatesOf(n) ==
    (IF journey[n] = "FilteredOut" THEN {"FilteredOut"} ELSE {})
      \cup (IF handed[n] # NoRelease /\ wpc[n] = "none"
            THEN {"Rendered"} ELSE {})
      \cup (IF installRet[n] = Nil THEN {"Installed"} ELSE {})
      \cup (IF installRet[n] = "ReleaseExists" /\ cmd = "import"
            THEN {"Skipped"} ELSE {})
      \cup (IF \/ installRet[n] = "InstallError"
               \/ installRet[n] = "ReleaseExists" /\ cmd = "transfer"
            THEN {"Failed"} ELSE {})

\* C21: HelmClient.Install is called at most once for a release; a release
\* is in at most one terminal state, and in exactly one once deployReleases
\* has returned and its installs are over, unless its own path rewrite
\* failed; and no step takes a release out of a terminal state or calls
\* Install for a release that is in one.
C21_NoRetries ==
    /\ [](\A n \in ReleaseNames :
            /\ installCalls[n] <= 1
            /\ Cardinality(TerminalStatesOf(n)) <= 1
            /\ journey[n] \in Terminal => TerminalStatesOf(n) = {journey[n]}
            /\ (DeployReturned /\ InFlight = {} /\ n \in BatchNames
                  /\ wpc[n] \in {"none", "exited"}
                  /\ journey[n] # "RewriteFailed")
                 => journey[n] \in Terminal \ {"FilteredOut"})
    /\ [][\A n \in ReleaseNames :
            journey[n] \in Terminal =>
               /\ journey'[n] = journey[n]
               /\ installCalls'[n] = installCalls[n]]_vars

\* A run has returned with one release installed and another one failed,
\* each after one Install call.
C21_Witness ==
    /\ pc = "done"
    /\ \E n, m \in ReleaseNames :
         /\ journey[n] = "Failed" /\ installCalls[n] = 1
         /\ wpc[n] = "exited"
         /\ journey[m] = "Installed" /\ installCalls[m] = 1

(* ------------------- C22: deployReleases returns ----------------------- *)

\* C22: under fair scheduling and with every install call returning, an
\* Import.deployReleases that was entered returns nil with its range loop
\* and its permit-refill loop completed, whatever the batch size and the
\* permit pool size.
C22_DeployReleasesReturns ==
    (cmd = "import" /\ pc = "deploy") ~>
        (/\ pc = "done"
         /\ runErr = Nil
         /\ idx > Len(releases)
         /\ refill = semCap)

\* deployReleases has returned from a batch of MaxReleases releases, more
\* than its one permit, all of them dispatched, with the pool refilled.
C22_Witness ==
    /\ cmd = "import"
    /\ pc = "done"
    /\ runErr = Nil
    /\ semCap = 1
    /\ Len(releases) = MaxReleases
    /\ Launched = BatchNames
    /\ refill = semCap
    /\ sem = semCap

====
